---- MODULE Spec2Model ----
(***************************************************************************)
(* A model of lilyparse (namespace stan): the exact Duration arithmetic,   *)
(* the notation elements (rest, note, chord, beam, tuplet) with their      *)
(* validation, the Spirit X3 grammar of the lilypond reader, and the debug *)
(* writer.                                                                 *)
(*                                                                         *)
(* A text is a sequence of one-character strings.  A grammar rule is an    *)
(* operator rule(s, i) that returns [st, pos, val]: st is "ok" (matched,   *)
(* next position pos, attribute val), "fail" (no match) or "throw" (a      *)
(* semantic action raised the exception val, which leaves the parser).     *)
(***************************************************************************)
EXTENDS Integers, Sequences, FiniteSets, TLC

VARIABLES
    lily,       \* parse: the input text handed to the reader
    music,      \* parse: what parse(lily) gave (a column or an exception)
    written,    \* debug writer: the rendering of the parsed column
    again,      \* parse of the rendering
    pc,         \* the step the run is at
    m_elements, \* beam: the member sequence handed to the constructor
    built,      \* beam: what the constructor gave
    visited,    \* beam: the indices of the members validate looked at, in order
    ratio,      \* tuplet::scale: [num, den]
    inner,      \* tuplet::scale: the inner value
    scaled,     \* tuplet::scale(num, den, duration) result
    scaledv,    \* tuplet::scale(num, den, value) result
    d1,         \* duration: left operand
    d2,         \* duration: right operand
    sum,        \* duration: d1 + d2
    source,     \* copy: the column that is copied
    heap,       \* copy: the storage, one column object per address
    original,   \* copy: the address of the column that is copied
    copied      \* copy: what the copy gave (the address of the new column)

vars == <<lily, music, written, again, pc, m_elements, built, visited,
          ratio, inner, scaled, scaledv, d1, d2, sum,
          source, heap, original, copied>>

Nothing == [type |-> "none"]

\* The member of a one-element set: Only({e(x) : x \in {v}}) is e(v) with v
\* computed once.
Only(S) == CHOOSE x \in S : TRUE

Ok(v) == [st |-> "ok", val |-> v]

Throw(kind, msg) == [st |-> "throw", val |-> [type |-> kind, what |-> msg]]

(***************************************************************************)
(* Values.  A value is a fraction of a whole note with its dot count.      *)
(***************************************************************************)
Value(n, d, dots) == [num |-> n, den |-> d, dots |-> dots]

whole == Value(1, 1, 0)
half == Value(1, 2, 0)
quarter == Value(1, 4, 0)
eighth == Value(1, 8, 0)
sixteenth == Value(1, 16, 0)
thirtysecond == Value(1, 32, 0)
sixtyfourth == Value(1, 64, 0)

\* One more dot: half of the last extension is added.
dot(v) == Value(2 * v.num + 1, 2 * v.den, v.dots + 1)

\* rational comparison by cross-multiplication
RationalGt(a, b) == a.num * b.den > b.num * a.den

RationalEq(a, b) == a.num * b.den = b.num * a.den

\* static_cast<duration>(value)
ToDuration(v) == [num |-> v.num, den |-> v.den]

(***************************************************************************)
(* Pitches.                                                                *)
(***************************************************************************)
Steps == {"a", "b", "c", "d", "e", "f", "g"}

Alters == {-2, -1, 0, 1, 2}

PitchClass(step, alter) == [step |-> step, alter |-> alter]

AlterSuffix(alter) ==
    CASE alter = -2 -> <<"f", "f">>
      [] alter = -1 -> <<"f">>
      [] alter = 0 -> <<>>
      [] alter = 1 -> <<"s">>
      [] alter = 2 -> <<"s", "s">>

\* pitchclass_names: the spelling of a pitch class
pitchclass_names(p) == <<p.step>> \o AlterSuffix(p.alter)

octave(n) == n

Pitch(p, o) == [m_pitchclass |-> p, m_octave |-> o]

(***************************************************************************)
(* Notation elements.                                                      *)
(***************************************************************************)
rest(v) == [type |-> "rest", m_value |-> v]

note(v, p) == [type |-> "note", m_value |-> v, m_pitch |-> p]

chord(v, ps) == [type |-> "chord", m_value |-> v, m_pitches |-> ps]

\* The elements as stored; the constructors below validate first.
RawBeam(es) == [type |-> "beam", m_elements |-> es]

RawTuplet(v, es) == [type |-> "tuplet", m_value |-> v, m_elements |-> es]

\* is_valid with the visitor of rests returning the empty message
is_valid_AllowRests(m_numelements, v) ==
    CASE v.type = "rest" -> ""
      [] v.type \in {"note", "chord"} ->
            IF RationalGt(v.m_value, quarter)
            THEN "cannot hold whole or half notes"
            ELSE IF m_numelements < 2
            THEN "must contain at least two values"
            ELSE ""
      [] v.type = "beam" ->
            IF m_numelements < 2
            THEN "nested beams must contain at least two values"
            ELSE ""
      [] v.type = "tuplet" ->
            IF RationalGt(v.m_value, quarter)
            THEN "cannot hold whole or half note tuplets"
            ELSE ""

\* beam::validate()::is_valid: the message for one member, "" when it is fine
is_valid(m_numelements, v) ==
    CASE v.type = "rest" -> "cannot contain rests"
      [] v.type \in {"note", "chord"} ->
            IF RationalGt(v.m_value, quarter)
            THEN "cannot hold whole or half notes"
            ELSE IF m_numelements < 2
            THEN "must contain at least two values"
            ELSE ""
      [] v.type = "beam" ->
            IF m_numelements < 2
            THEN "nested beams must contain at least two values"
            ELSE ""
      [] v.type = "tuplet" ->
            IF RationalGt(v.m_value, quarter)
            THEN "cannot hold whole or half note tuplets"
            ELSE ""

RECURSIVE validate_from(_, _)
\* validate_from that looks at one member only
validate_from_FirstOnly(es, i) ==
    IF i > Len(es) THEN [what |-> "", visited |-> <<>>]
    ELSE [what |-> is_valid(Len(es), es[i]), visited |-> <<i>>]

\* validate_from that looks at every member and keeps the last message
validate_from_KeepsGoing(es, i) ==
    IF i > Len(es) THEN [what |-> "", visited |-> <<>>]
    ELSE Only({ [what |-> IF r.what # "" THEN r.what ELSE is_valid(Len(es), es[i]),
                 visited |-> <<i>> \o r.visited]
                : r \in {validate_from(es, i + 1)} })

\* beam::validate(): std::for_each over the members from index i on; the
\* first message that is not empty is thrown as invalid_beam, which ends the
\* loop.  what is that message ("" when there is none), visited the indices
\* the loop body ran on.
validate_from(es, i) ==
    IF i > Len(es) THEN [what |-> "", visited |-> <<>>]
    ELSE Only({ IF result # "" THEN [what |-> result, visited |-> <<i>>]
                ELSE Only({ [what |-> r.what, visited |-> <<i>> \o r.visited]
                            : r \in {validate_from(es, i + 1)} })
                : result \in {is_valid(Len(es), es[i])} })

beam_validate(es) == validate_from(es, 1).what

\* beam{elements}: store, then validate
beam(es) ==
    LET result == beam_validate(es)
    IN IF result = "" THEN Ok(RawBeam(es)) ELSE Throw("invalid_beam", result)

\* tuplet::validate()
tuplet_validate(es) ==
    IF Len(es) < 2 THEN "tuplet must contain at least two elements" ELSE ""

\* tuplet{value, elements}: store, then validate
tuplet(v, es) ==
    LET result == tuplet_validate(es)
    IN IF result = "" THEN Ok(RawTuplet(v, es)) ELSE Throw("invalid_value", result)

\* copy_variant: rest, note and chord by value; beam and tuplet rebuilt from
\* the copies of their children (the first child that throws ends the copy).
RECURSIVE copy_variant(_)
copy_variant(v) ==
    IF v.type \in {"beam", "tuplet"}
    THEN Only({
            LET bad == {k \in 1..Len(copies) : copies[k].st = "throw"}
                elements == [k \in 1..Len(copies) |-> copies[k].val]
            IN IF bad # {}
               THEN copies[CHOOSE k \in bad : \A j \in bad : k <= j]
               ELSE IF v.type = "beam" THEN beam(elements)
               ELSE tuplet(v.m_value, elements)
            : copies \in {[k \in 1..Len(v.m_elements) |-> copy_variant(v.m_elements[k])]} })
    ELSE Ok(v)

(***************************************************************************)
(* The grammar of the lilypond reader (Spirit X3, skipper x3::space).      *)
(***************************************************************************)
Match(pos, v) == [st |-> "ok", pos |-> pos, val |-> v]

NoMatch == [st |-> "fail", pos |-> 0, val |-> Nothing]

Raised(e) == [st |-> "throw", pos |-> 0, val |-> e]

\* The characters x3::space skips.
Spaces == {" "}

\* The skipper, run before every primitive parser.
RECURSIVE skip_over(_, _)
skip_over(s, i) ==
    IF i <= Len(s) /\ s[i] \in Spaces THEN skip_over(s, i + 1) ELSE i

\* lit(ch) and char_(ch)
lit(s, i, ch) ==
    LET j == skip_over(s, i)
    IN IF j <= Len(s) /\ s[j] = ch THEN Match(j + 1, ch) ELSE NoMatch

\* repeat(_, max)[char_(ch)]: how many were matched, and where it stopped
RECURSIVE repeat_char(_, _, _, _)
repeat_char(s, i, ch, max) ==
    IF max = 0 THEN [n |-> 0, pos |-> i]
    ELSE Only({ IF r.st = "ok"
                THEN Only({ [n |-> t.n + 1, pos |-> t.pos] :
                            t \in {repeat_char(s, r.pos, ch, max - 1)} })
                ELSE [n |-> 0, pos |-> i]
                : r \in {lit(s, i, ch)} })

\* x3::symbols: the longest entry of the table found at the position
symbols(s, i, table) ==
    LET j == skip_over(s, i)
        hits == {e \in table : /\ j + Len(e.name) - 1 <= Len(s)
                               /\ SubSeq(s, j, j + Len(e.name) - 1) = e.name}
    IN IF hits = {} THEN NoMatch
       ELSE LET best == CHOOSE e \in hits : \A f \in hits : Len(f.name) <= Len(e.name)
            IN Match(j + Len(best.name), best.val)

\* struct pitchclass_: "aff" -> pc::aff, ... (35 spellings)
pitchclass ==
    {[name |-> <<step>> \o AlterSuffix(alter), val |-> PitchClass(step, alter)] :
        step \in Steps, alter \in Alters}

\* struct basevalue_
basevalue ==
    { [name |-> <<"1">>, val |-> whole],
      [name |-> <<"2">>, val |-> half],
      [name |-> <<"4">>, val |-> quarter],
      [name |-> <<"8">>, val |-> eighth],
      [name |-> <<"1", "6">>, val |-> sixteenth],
      [name |-> <<"3", "2">>, val |-> thirtysecond],
      [name |-> <<"6", "4">>, val |-> sixtyfourth] }

raise_octave(size) == octave(4 + size)

\* lower_octave adding the marks instead of subtracting them
lower_octave_Adds(size) == octave(4 + size)

lower_octave(size) == octave(4 - size)

default_octave == octave(4)

\* poctave with one raise mark more than octave::max() allows
poctave_FourUp(s, i) ==
    LET up == repeat_char(s, i, "'", 8 - 4)
        down == repeat_char(s, i, ",", 4 - 0)
    IN IF up.n >= 1 THEN Match(up.pos, raise_octave(up.n))
       ELSE IF down.n >= 1 THEN Match(down.pos, lower_octave(down.n))
       ELSE Match(skip_over(s, i), default_octave)

poctave(s, i) ==
    LET up == repeat_char(s, i, "'", 7 - 4)
        down == repeat_char(s, i, ",", 4 - 0)
    IN IF up.n >= 1 THEN Match(up.pos, raise_octave(up.n))
       ELSE IF down.n >= 1 THEN Match(down.pos, lower_octave(down.n))
       ELSE Match(skip_over(s, i), default_octave)

\* lit('.')[add_dot], n times
RECURSIVE add_dot(_, _)
add_dot(v, n) == IF n = 0 THEN v ELSE add_dot(dot(v), n - 1)

pvalue(s, i) ==
    LET b == symbols(s, i, basevalue)
    IN IF b.st # "ok" THEN NoMatch
       ELSE LET dots == repeat_char(s, b.pos, ".", 2)
            IN Match(dots.pos, add_dot(b.val, dots.n))

ppitch(s, i) ==
    LET p == symbols(s, i, pitchclass)
    IN IF p.st # "ok" THEN NoMatch
       ELSE LET o == poctave(s, p.pos)
            IN Match(o.pos, Pitch(p.val, o.val))

prest(s, i) ==
    LET r == lit(s, i, "r")
    IN IF r.st # "ok" THEN NoMatch
       ELSE LET v == pvalue(s, r.pos)
            IN IF v.st # "ok" THEN NoMatch ELSE Match(v.pos, rest(v.val))

pnote(s, i) ==
    LET p == ppitch(s, i)
    IN IF p.st # "ok" THEN NoMatch
       ELSE LET v == pvalue(s, p.pos)
            IN IF v.st # "ok" THEN NoMatch ELSE Match(v.pos, note(v.val, p.val))

\* +ppitch: the pitches matched (none when the first fails)
RECURSIVE plus_ppitch(_, _)
plus_ppitch(s, i) ==
    Only({ IF r.st = "ok"
           THEN Only({ [vals |-> <<r.val>> \o t.vals, pos |-> t.pos] :
                       t \in {plus_ppitch(s, r.pos)} })
           ELSE [vals |-> <<>>, pos |-> i]
           : r \in {ppitch(s, i)} })

pchord(s, i) ==
    LET open == lit(s, i, "<")
    IN IF open.st # "ok" THEN NoMatch
       ELSE Only({
               IF ps.vals = <<>> THEN NoMatch
               ELSE LET close == lit(s, ps.pos, ">")
                    IN IF close.st # "ok" THEN NoMatch
                       ELSE LET v == pvalue(s, close.pos)
                            IN IF v.st # "ok" THEN NoMatch
                               ELSE Match(v.pos, chord(v.val, ps.vals))
               : ps \in {plus_ppitch(s, open.pos)} })

\* construct<stan::column>: the matched alternative is deep-copied
construct_column(r) ==
    Only({ IF c.st = "throw" THEN Raised(c.val) ELSE Match(r.pos, c.val) :
           c \in {copy_variant(r.val)} })

RECURSIVE column(_, _), pbeam(_, _), plus_column(_, _)
\* +column: the columns matched; an exception of one of them leaves the loop
plus_column(s, i) ==
    Only({ IF r.st = "throw"
           THEN [st |-> "throw", exc |-> r.val, vals |-> <<>>, pos |-> 0]
           ELSE IF r.st = "fail"
           THEN [st |-> "ok", exc |-> Nothing, vals |-> <<>>, pos |-> i]
           ELSE Only({ IF t.st = "throw" THEN t
                       ELSE [st |-> "ok", exc |-> Nothing,
                             vals |-> <<r.val>> \o t.vals, pos |-> t.pos]
                       : t \in {plus_column(s, r.pos)} })
           : r \in {column(s, i)} })

\* pbeam with the beam constructed once the closing ']' has matched
pbeam_AfterClose(s, i) ==
    LET open == lit(s, i, "[")
    IN IF open.st # "ok" THEN NoMatch
       ELSE Only({
               IF cols.st = "throw" THEN Raised(cols.exc)
               ELSE IF cols.vals = <<>> THEN NoMatch
               ELSE LET close == lit(s, cols.pos, "]")
                    IN IF close.st # "ok" THEN NoMatch
                       ELSE LET b == beam(cols.vals)
                            IN IF b.st = "throw" THEN Raised(b.val)
                               ELSE Match(close.pos, b.val)
               : cols \in {plus_column(s, open.pos)} })

\* '[' >> (+column)[construct<stan::beam>()] >> ']'
pbeam(s, i) ==
    LET open == lit(s, i, "[")
    IN IF open.st # "ok" THEN NoMatch
       ELSE Only({
               IF cols.st = "throw" THEN Raised(cols.exc)
               ELSE IF cols.vals = <<>> THEN NoMatch
               ELSE LET b == beam(cols.vals)
                    IN IF b.st = "throw" THEN Raised(b.val)
                       ELSE LET close == lit(s, cols.pos, "]")
                            IN IF close.st # "ok" THEN NoMatch
                               ELSE Match(close.pos, b.val)
               : cols \in {plus_column(s, open.pos)} })

\* (prest | pnote | pchord | pbeam)[construct<stan::column>()]
column(s, i) ==
    Only({ IF r1.st = "ok" THEN construct_column(r1)
           ELSE Only({ IF r2.st = "ok" THEN construct_column(r2)
           ELSE Only({ IF r3.st = "ok" THEN construct_column(r3)
           ELSE Only({ IF r4.st = "ok" THEN construct_column(r4) ELSE r4
                       : r4 \in {pbeam(s, i)} })
                       : r3 \in {pchord(s, i)} })
                       : r2 \in {pnote(s, i)} })
           : r1 \in {prest(s, i)} })

default_pitch == Pitch(PitchClass("c", 0), octave(4))

default_note == note(quarter, default_pitch)

\* x3::phrase_parse(iter, end, column, x3::space, music): the attribute is
\* written on a match only, and the skipper runs once more after the match
phrase_parse(s, attr) ==
    Only({ IF r.st = "throw"
           THEN [st |-> "throw", exc |-> r.val, iter |-> 1, attr |-> attr]
           ELSE IF r.st = "fail"
           THEN [st |-> "fail", exc |-> Nothing, iter |-> 1, attr |-> attr]
           ELSE [st |-> "ok", exc |-> Nothing, iter |-> skip_over(s, r.pos), attr |-> r.val]
           : r \in {column(s, 1)} })

\* parse without the check that the iterator reached the end
parse_NoEndCheck(text) ==
    Only({ IF r.st = "throw" THEN [st |-> "throw", val |-> r.exc]
           ELSE IF r.st = "fail" THEN Throw("runtime_error", "parse error")
           ELSE copy_variant(r.attr)
           : r \in {phrase_parse(text, default_note)} })

\* stan::lilypond::parse
parse(text) ==
    Only({ IF r.st = "throw" THEN [st |-> "throw", val |-> r.exc]
           ELSE IF r.st = "fail" THEN Throw("runtime_error", "parse error")
           ELSE IF r.iter # Len(text) + 1 THEN Throw("runtime_error", "incomplete parse")
           ELSE copy_variant(r.attr)
           : r \in {phrase_parse(text, default_note)} })

(***************************************************************************)
(* The debug writer.                                                       *)
(***************************************************************************)
Digits == <<"0", "1", "2", "3", "4", "5", "6", "7", "8", "9">>

\* std::to_string of an unsigned number
RECURSIVE to_string(_)
to_string(n) ==
    IF n < 10 THEN <<Digits[n + 1]>>
    ELSE to_string(n \div 10) \o <<Digits[(n % 10) + 1]>>

\* std::string(n, ch)
RECURSIVE string_of(_, _)
string_of(n, ch) == IF n = 0 THEN <<>> ELSE <<ch>> \o string_of(n - 1, ch)

\* 1u << n
RECURSIVE shl1(_)
shl1(n) == IF n = 0 THEN 1 ELSE 2 * shl1(n - 1)

write_pitch(r) == pitchclass_names(r.m_pitchclass) \o to_string(r.m_octave)

write_value(v) == to_string(v.den \div shl1(v.dots)) \o string_of(v.dots, ".")

\* std::accumulate(..., res + write(p) + " ") followed by resize(size() - 1);
\* every sequence written here has at least one element
Joined(parts) ==
    LET RECURSIVE acc(_)
        acc(k) == IF k = 0 THEN <<>> ELSE acc(k - 1) \o parts[k] \o <<" ">>
        all == acc(Len(parts))
    IN SubSeq(all, 1, Len(all) - 1)

RECURSIVE write(_)
\* write with the rest rendered as the grammar spells it, "r" and the value
write_LilyRest(col) ==
    CASE col.type = "rest" -> <<"r">> \o write_value(col.m_value)
      [] col.type = "note" ->
            write_pitch(col.m_pitch) \o <<":">> \o write_value(col.m_value)
      [] col.type = "chord" ->
            <<"<">> \o Joined([k \in 1..Len(col.m_pitches) |-> write_pitch(col.m_pitches[k])])
                \o <<">", ":">> \o write_value(col.m_value)
      [] col.type = "beam" ->
            <<"[">> \o Joined([k \in 1..Len(col.m_elements) |-> write(col.m_elements[k])])
                \o <<"]">>
      [] col.type = "tuplet" ->
            write_value(col.m_value) \o <<":", "{">>
                \o Joined([k \in 1..Len(col.m_elements) |-> write(col.m_elements[k])])
                \o <<"}", "]">>

write(col) ==
    CASE col.type = "rest" -> <<"r", ":">> \o write_value(col.m_value)
      [] col.type = "note" ->
            write_pitch(col.m_pitch) \o <<":">> \o write_value(col.m_value)
      [] col.type = "chord" ->
            <<"<">> \o Joined([k \in 1..Len(col.m_pitches) |-> write_pitch(col.m_pitches[k])])
                \o <<">", ":">> \o write_value(col.m_value)
      [] col.type = "beam" ->
            <<"[">> \o Joined([k \in 1..Len(col.m_elements) |-> write(col.m_elements[k])])
                \o <<"]">>
      [] col.type = "tuplet" ->
            write_value(col.m_value) \o <<":", "{">>
                \o Joined([k \in 1..Len(col.m_elements) |-> write(col.m_elements[k])])
                \o <<"}", "]">>

(***************************************************************************)
(* The texts handed to the reader.                                         *)
(***************************************************************************)
MaxChars == 3
MaxTokens == 5
MaxMarks == 5

SeqsUpTo(S, n) == UNION {[1..k -> S] : k \in 0..n}

RECURSIVE Concat(_)
Concat(ss) == IF ss = <<>> THEN <<>> ELSE Head(ss) \o Concat(Tail(ss))

Alphabet == {"c", "f", "'", ",", "4", "1", "6", ".", " ", "r", "<", ">", "[", "]"}

Tokens ==
    { <<"[">>, <<"]">>, <<"c", "8">>, <<"r", "8">>,
      <<"<", "c", " ", "e", ">", "4", ".">>, <<"[", "c", "8", " ", "e", "8", "]">> }

\* the literals the specification names
Examples ==
    { <<"r", "4">>, <<"c", "'", "4">>, <<"<", "c", " ", "e", " ", "g", ">", "4">>,
      <<"[", "c", "8", " ", "d", "8", "]">>, <<"c", "4", " ", "d", "4">>,
      <<"c", "4", " ", " ">>, <<"[", "e", "2", " ", "c", "8", "]">>,
      <<"[", "r", "8", " ", "c", "8">>, <<"[", "c", "8", " ", "c", "8", "]", " ", "c", "4">> }

\* a pitch, a run of octave marks, a value
MarkTexts ==
    {<<"c">> \o m \o <<"4">> : m \in SeqsUpTo({"'", ","}, MaxMarks)}

Texts ==
    SeqsUpTo(Alphabet, MaxChars)
        \cup {Concat(ts) : ts \in SeqsUpTo(Tokens, MaxTokens)}
        \cup MarkTexts \cup Examples

(***************************************************************************)
(* The reader and the writer as a state machine.                           *)
(***************************************************************************)
Idle == [st |-> "idle", val |-> Nothing]

parseVars == <<lily, music, written, again>>

beamVars == <<m_elements, built, visited>>

scaleVars == <<ratio, inner, scaled, scaledv>>

durationVars == <<d1, d2, sum>>

copyVars == <<source, heap, original, copied>>

\* The parts of the state a run does not use stay as they are here.
ParseIdle == lily = <<>> /\ music = Idle /\ written = <<>> /\ again = Idle

BeamIdle == m_elements = <<>> /\ built = Idle /\ visited = <<>>

ScaleIdle ==
    /\ ratio = [num |-> 1, den |-> 1] /\ inner = quarter
    /\ scaled = Idle /\ scaledv = Idle

DurationIdle ==
    d1 = [num |-> 0, den |-> 1] /\ d2 = [num |-> 0, den |-> 1] /\ sum = Idle

CopyIdle == source = Nothing /\ heap = <<>> /\ original = 0 /\ copied = Idle

Init ==
    /\ lily \in Texts
    /\ music = Idle /\ written = <<>> /\ again = Idle
    /\ pc = "start"
    /\ BeamIdle /\ ScaleIdle /\ DurationIdle /\ CopyIdle

\* reader::operator(): parse(lily)
Parse ==
    /\ pc = "start"
    /\ music' = parse(lily)
    /\ pc' = "parsed"
    /\ UNCHANGED <<lily, written, again, beamVars, scaleVars, durationVars, copyVars>>

\* driver::debug::write(column)
Write ==
    /\ pc = "parsed" /\ music.st = "ok"
    /\ written' = write(music.val)
    /\ pc' = "written"
    /\ UNCHANGED <<lily, music, again, beamVars, scaleVars, durationVars, copyVars>>

\* the rendering handed to the reader again
Reparse ==
    /\ pc = "written"
    /\ again' = parse(written)
    /\ pc' = "reparsed"
    /\ UNCHANGED <<lily, music, written, beamVars, scaleVars, durationVars, copyVars>>

Next == Parse \/ Write \/ Reparse

Spec == Init /\ [][Next]_vars

(***************************************************************************)
(* Properties of the reader.                                               *)
(***************************************************************************)
ParseError == Throw("runtime_error", "parse error")

IncompleteParse == Throw("runtime_error", "incomplete parse")

C4D4 == <<"c", "4", " ", "d", "4">>

\* Nothing but whitespace from position i on.
OnlySpacesFrom(s, i) == \A k \in i..Len(s) : s[k] \in Spaces

\* C1 as stated: parse returns a column only if a column matches and only
\* whitespace follows it; when no column matches it fails with "parse error";
\* when one matches and more than whitespace follows, with "incomplete parse".
C1_Original ==
    pc # "start" =>
        LET r == column(lily, 1)
        IN /\ music.st = "ok" => (r.st = "ok" /\ OnlySpacesFrom(lily, r.pos))
           /\ r.st # "ok" => music = ParseError
           /\ (r.st = "ok" /\ ~OnlySpacesFrom(lily, r.pos)) => music = IncompleteParse
           /\ (r.st = "ok" /\ OnlySpacesFrom(lily, r.pos)) => music.st = "ok"
           /\ lily = C4D4 => music.st = "throw"

\* C1 (amended): as C1_Original, except that a beam whose validation fails
\* while the column is matched ends parse with that invalid_beam exception;
\* "c4 d4" fails with "incomplete parse".
C1_ParseOutcome ==
    pc # "start" =>
        LET r == column(lily, 1)
        IN /\ music.st = "ok" => (r.st = "ok" /\ OnlySpacesFrom(lily, r.pos))
           /\ r.st = "throw" =>
                (music.st = "throw" /\ music.val = r.val /\ r.val.type = "invalid_beam")
           /\ r.st = "fail" => music = ParseError
           /\ (r.st = "ok" /\ ~OnlySpacesFrom(lily, r.pos)) => music = IncompleteParse
           /\ (r.st = "ok" /\ OnlySpacesFrom(lily, r.pos)) => music.st = "ok"
           /\ lily = C4D4 => music = IncompleteParse

C1_Witness == pc = "parsed" /\ lily = C4D4 /\ music = IncompleteParse

\* A column that is valid at every level of its tree.
RECURSIVE WellFormed(_)
WellFormed(c) ==
    CASE c.type = "rest" -> TRUE
      [] c.type = "note" -> TRUE
      [] c.type = "chord" -> Len(c.m_pitches) >= 1
      [] c.type = "beam" ->
            /\ Len(c.m_elements) >= 2
            /\ \A k \in 1..Len(c.m_elements) :
                  LET m == c.m_elements[k]
                  IN /\ m.type \in {"note", "chord", "beam"}
                     /\ m.type \in {"note", "chord"} => m.m_value.num * 4 <= m.m_value.den
                     /\ WellFormed(m)
      [] OTHER -> FALSE

\* The text without its whitespace.
Squeezed(s) == SelectSeq(s, LAMBDA ch : ch \notin Spaces)

\* C2: parse fails and yields no column, or yields a column valid at every
\* level (beams of two or more members, no rest and no note or chord longer
\* than a quarter in a beam, chords of one pitch or more), which is the
\* default note only when the text denotes it.
C2_ValidOrNothing ==
    pc # "start" =>
        \/ /\ music.st = "throw"
           /\ music.val.type \in {"runtime_error", "invalid_beam"}
        \/ /\ music.st = "ok"
           /\ WellFormed(music.val)
           /\ music.val = default_note => Squeezed(lily) = <<"c", "4">>

C2_Witness ==
    /\ pc = "parsed" /\ music.st = "ok" /\ music.val.type = "beam"
    /\ \E k \in 1..Len(music.val.m_elements) : music.val.m_elements[k].type = "beam"

\* The octave marks of a text of MarkTexts: what stands between "c" and "4".
MarksOf(s) == SubSeq(s, 2, Len(s) - 1)

Uniform(m, ch) == \A k \in 1..Len(m) : m[k] = ch

NoteC(o) == note(quarter, Pitch(PitchClass("c", 0), o))

\* C7: in the note "c<marks>4", k raise marks (1 <= k <= 3) give octave 4+k,
\* k lower marks (1 <= k <= 4) give octave 4-k, no marks give octave 4; a
\* longer run or a run of both kinds of marks gives no note: the parse fails.
C7_OctaveMarks ==
    (pc # "start" /\ lily \in MarkTexts) =>
        LET m == MarksOf(lily)
            k == Len(m)
        IN IF k = 0 THEN music = Ok(NoteC(4))
           ELSE IF Uniform(m, "'") /\ k <= 3 THEN music = Ok(NoteC(4 + k))
           ELSE IF Uniform(m, ",") /\ k <= 4 THEN music = Ok(NoteC(4 - k))
           ELSE music = ParseError

C7_Witness ==
    /\ pc = "parsed" /\ lily = <<"c", ",", ",", ",", "4">>
    /\ music = Ok(NoteC(1))

\* The octaves of the pitches of a column.
RECURSIVE Octaves(_)
Octaves(c) ==
    CASE c.type = "note" -> {c.m_pitch.m_octave}
      [] c.type = "chord" -> {c.m_pitches[k].m_octave : k \in 1..Len(c.m_pitches)}
      [] c.type \in {"beam", "tuplet"} ->
            UNION {Octaves(c.m_elements[k]) : k \in 1..Len(c.m_elements)}
      [] OTHER -> {}

\* C8 as stated: every octave of a parsed column lies in 1..7.
C8_Original == music.st = "ok" => Octaves(music.val) \subseteq 1..7

\* C8 (amended): every octave of a parsed column lies in 0..7 (four lower
\* marks give octave 0).
C8_OctaveRange == music.st = "ok" => Octaves(music.val) \subseteq 0..7

C8_Witness ==
    /\ pc = "parsed" /\ music.st = "ok"
    /\ lily = <<"c", "'", "'", "'", "4">> /\ Octaves(music.val) = {7}

\* C10 as stated: the rendering of a parsed column parses again, to an equal
\* column.
C10_Original == pc = "reparsed" => (again.st = "ok" /\ again.val = music.val)

\* C10 (amended): the rendering of a parsed column holds a ':' (and the
\* octave as a number), which the grammar does not accept: the parse of the
\* rendering always fails (parse error, incomplete parse or invalid_beam).
C10_RenderingNotParsed ==
    pc = "reparsed" =>
        /\ \E k \in 1..Len(written) : written[k] = ":"
        /\ again.st = "throw"
        /\ \/ again \in {ParseError, IncompleteParse}
           \/ again.val.type = "invalid_beam"

C10_Witness ==
    /\ pc = "reparsed" /\ lily = <<"[", "c", "8", " ", "d", "8", "]">>
    /\ written = <<"[", "c", "4", ":", "8", " ", "d", "4", ":", "8", "]">>
    /\ again.st = "throw"

\* The member list after a '[' at i (whitespace before the '[' skipped).
MemberList(s, i) == plus_column(s, lit(s, i, "[").pos)

\* At i stands a '[' followed by one or more columns that break a beam rule.
ViolatesAt(s, i) ==
    /\ lit(s, i, "[").st = "ok"
    /\ MemberList(s, i).st = "ok"
    /\ MemberList(s, i).vals # <<>>
    /\ beam_validate(MemberList(s, i).vals) # ""

C8InBeam == <<"c", "8", "[", "r", "8", "]">>

\* C13 as stated: whenever the text contains a '[' followed by one or more
\* columns that break a beam rule, parse fails with invalid_beam.
C13_Original ==
    pc = "parsed" =>
        \A i \in 1..Len(lily) :
            ViolatesAt(lily, i) =>
                (music.st = "throw" /\ music.val.type = "invalid_beam")

\* C13 (amended): the beam is validated as soon as '[' column+ has matched,
\* before the ']' is looked at, and the failure is not recovered: wherever the
\* rule pbeam is tried on a '[' followed by columns that break a beam rule it
\* raises invalid_beam, and it does so as well on the text cut off after the
\* member list; when the text starts with such a beam, parse ends with that
\* invalid_beam and neither with "parse error" nor with "incomplete parse",
\* whatever follows the member list.  A '[' the parser does not come to is
\* not validated: "c8[r8]" ends with "incomplete parse".
C13_BeamFailsAtOnce ==
    pc = "parsed" =>
        /\ \A i \in {k \in 1..Len(lily) : lily[k] = "["} :
              \A cols \in {MemberList(lily, i)} :
                 (cols.st = "ok" /\ cols.vals # <<>>) =>
                    \A e \in {[type |-> "invalid_beam", what |-> beam_validate(cols.vals)]} :
                       e.what # "" =>
                          /\ pbeam(lily, i) = Raised(e)
                          /\ pbeam(SubSeq(lily, 1, cols.pos - 1), i) = Raised(e)
                          /\ i = skip_over(lily, 1) =>
                                /\ music = [st |-> "throw", val |-> e]
                                /\ music \notin {ParseError, IncompleteParse}
                                /\ parse(SubSeq(lily, 1, cols.pos - 1)) = music
        /\ lily = C8InBeam => (ViolatesAt(lily, 3) /\ music = IncompleteParse)

C13_Witness ==
    /\ pc = "parsed" /\ lily = <<"[", "r", "8", " ", "c", "8">>
    /\ ViolatesAt(lily, 1)
    /\ music = Throw("invalid_beam", "cannot contain rests")

(***************************************************************************)
(* Beam construction from a member sequence.                               *)
(***************************************************************************)
MaxMembers == 3

n8 == note(eighth, default_pitch)
n4 == note(quarter, default_pitch)
n2 == note(half, default_pitch)
r8 == rest(eighth)
ch8 == chord(eighth, <<default_pitch>>)
ch1 == chord(whole, <<default_pitch>>)
b8 == RawBeam(<<n8, n8>>)
t4 == RawTuplet(quarter, <<n8, n8, n8>>)
t2 == RawTuplet(half, <<n4, n4, n4>>)

\* the columns a beam is built from
Members == {n8, n4, n2, r8, ch8, ch1, b8, t4, t2}

InitBeam ==
    /\ m_elements \in SeqsUpTo(Members, MaxMembers)
    /\ built = Idle
    /\ visited = <<>>
    /\ pc = "start"
    /\ ParseIdle /\ ScaleIdle /\ DurationIdle /\ CopyIdle

\* beam{ elements }
ConstructBeam ==
    /\ pc = "start"
    /\ built' = beam(m_elements)
    /\ visited' = validate_from(m_elements, 1).visited
    /\ pc' = "built"
    /\ UNCHANGED <<m_elements, parseVars, scaleVars, durationVars, copyVars>>

NextBeam == ConstructBeam

SpecBeam == InitBeam /\ [][NextBeam]_vars

LongerThanQuarter(v) == v.num * 4 > v.den

\* The member m breaks a rule of a beam of n members.
Offends(m, n) ==
    \/ m.type = "rest"
    \/ m.type \in {"note", "chord"} /\ (LongerThanQuarter(m.m_value) \/ n < 2)
    \/ m.type = "beam" /\ n < 2
    \/ m.type = "tuplet" /\ LongerThanQuarter(m.m_value)

\* C3: beam construction fails, with invalid_beam, exactly when some member
\* is a rest, a note or chord longer than a quarter or in a beam of fewer
\* than two members, a nested beam in a parent of fewer than two members, or
\* a tuplet longer than a quarter; with the four examples of the claim.
C3_BeamFailsIff ==
    pc = "built" =>
        /\ built.st = "throw" <=>
              \E k \in 1..Len(m_elements) : Offends(m_elements[k], Len(m_elements))
        /\ built.st = "throw" => built.val.type = "invalid_beam"
        /\ built.st = "ok" => built.val = RawBeam(m_elements)
        /\ m_elements = <<n4>> => built.st = "throw"
        /\ m_elements = <<n8, n8>> => built.st = "ok"
        /\ m_elements = <<r8, n8>> => built.st = "throw"
        /\ m_elements = <<n2, n8>> => built.st = "throw"

C3_Witness ==
    /\ pc = "built" /\ m_elements = <<n8, r8>>
    /\ built = Throw("invalid_beam", "cannot contain rests")

\* C12: validation visits the members in sequence order and stops at the
\* first member that breaks a rule: the invalid_beam carries the message of
\* the lowest-index such member, no member after it is looked at, and a beam
\* of one note of a quarter or shorter reports "must contain at least two
\* values".
C12_FirstViolation ==
    pc = "built" =>
        LET n == Len(m_elements)
            bad == {k \in 1..n : Offends(m_elements[k], n)}
        IN /\ visited = [k \in 1..Len(visited) |-> k]
           /\ bad = {} => (built.st = "ok" /\ Len(visited) = n)
           /\ bad # {} =>
                 LET first == CHOOSE k \in bad : \A j \in bad : k <= j
                 IN /\ built = Throw("invalid_beam", is_valid(n, m_elements[first]))
                    /\ Len(visited) = first
           /\ m_elements \in {<<n8>>, <<n4>>} =>
                 built = Throw("invalid_beam", "must contain at least two values")

C12_Witness ==
    /\ pc = "built" /\ m_elements = <<n8, n2, r8>>
    /\ built = Throw("invalid_beam", "cannot hold whole or half notes")
    /\ visited = <<1, 2>>

\* C4: every beam the constructor accepts has at least two elements.
C4_AtLeastTwo ==
    (pc = "built" /\ built.st = "ok") => Len(built.val.m_elements) >= 2

(***************************************************************************)
(* tuplet::scale.                                                          *)
(***************************************************************************)
MaxRatio == 5

\* value::all: the seven base values, each with no, one and two dots
ValueAll ==
    << whole, dot(whole), dot(dot(whole)),
       half, dot(half), dot(dot(half)),
       quarter, dot(quarter), dot(dot(quarter)),
       eighth, dot(eighth), dot(dot(eighth)),
       sixteenth, dot(sixteenth), dot(dot(sixteenth)),
       thirtysecond, dot(thirtysecond), dot(dot(thirtysecond)),
       sixtyfourth, dot(sixtyfourth), dot(dot(sixtyfourth)) >>

InvalidTuplet == Throw("invalid_tuplet", "must equal a valid value")

\* scale with the ratio applied upside down
scale_InverseRatio(num, den, inner_d) ==
    LET outer == [num |-> inner_d.num * num, den |-> inner_d.den * den]
        RECURSIVE scan(_)
        scan(k) ==
            IF k > Len(ValueAll) THEN InvalidTuplet
            ELSE IF RationalEq(outer, ToDuration(ValueAll[k])) THEN Ok(ValueAll[k])
            ELSE scan(k + 1)
    IN scan(1)

\* scale comparing numerator and denominator instead of the fractions
scale_SameTerms(num, den, inner_d) ==
    LET outer == [num |-> inner_d.num * den, den |-> inner_d.den * num]
        RECURSIVE scan(_)
        scan(k) ==
            IF k > Len(ValueAll) THEN InvalidTuplet
            ELSE IF outer = ToDuration(ValueAll[k]) THEN Ok(ValueAll[k])
            ELSE scan(k + 1)
    IN scan(1)

\* tuplet::scale(int num, int den, const duration &inner)
scale(num, den, inner_d) ==
    LET outer == [num |-> inner_d.num * den, den |-> inner_d.den * num]
        RECURSIVE scan(_)
        scan(k) ==
            IF k > Len(ValueAll) THEN InvalidTuplet
            ELSE IF RationalEq(outer, ToDuration(ValueAll[k])) THEN Ok(ValueAll[k])
            ELSE scan(k + 1)
    IN scan(1)

\* tuplet::scale(int num, int den, const value &inner)
scale_value(num, den, inner_v) == scale(num, den, ToDuration(inner_v))

InitScale ==
    /\ ratio \in [num : 1..MaxRatio, den : 1..MaxRatio]
    /\ inner \in {ValueAll[k] : k \in 1..Len(ValueAll)}
    /\ scaled = Idle /\ scaledv = Idle
    /\ pc = "start"
    /\ ParseIdle /\ BeamIdle /\ DurationIdle /\ CopyIdle

ScaleDuration ==
    /\ scaled = Idle
    /\ scaled' = scale(ratio.num, ratio.den, ToDuration(inner))
    /\ UNCHANGED <<ratio, inner, scaledv, pc, parseVars, beamVars, durationVars, copyVars>>

ScaleValue ==
    /\ scaledv = Idle
    /\ scaledv' = scale_value(ratio.num, ratio.den, inner)
    /\ UNCHANGED <<ratio, inner, scaled, pc, parseVars, beamVars, durationVars, copyVars>>

NextScale == ScaleDuration \/ ScaleValue

SpecScale == InitScale /\ [][NextScale]_vars

\* The entries of value::all whose duration is (inner.num * den) / (inner.den * num).
Matching ==
    {k \in 1..Len(ValueAll) :
        ValueAll[k].num * (inner.den * ratio.num) = (inner.num * ratio.den) * ValueAll[k].den}

\* C5: scale returns the first entry of value::all whose duration equals
\* outer = (inner.num * den) / (inner.den * num) exactly, and fails with
\* invalid_tuplet when there is none, as for scale(5, 4, quarter); the
\* overload taking a value gives what scale gives on that value's duration.
\* (Ratios of positive terms.)
C5_ScaleFirstMatch ==
    /\ scaled # Idle =>
          /\ Matching = {} => scaled = InvalidTuplet
          /\ Matching # {} =>
                scaled = Ok(ValueAll[CHOOSE k \in Matching : \A j \in Matching : k <= j])
          /\ (ratio = [num |-> 5, den |-> 4] /\ inner = quarter) => scaled = InvalidTuplet
    /\ (scaled # Idle /\ scaledv # Idle) => scaledv = scaled

C5_Witness ==
    /\ ratio = [num |-> 5, den |-> 4] /\ inner = quarter
    /\ scaled = InvalidTuplet /\ scaledv = InvalidTuplet

Triplet == [num |-> 3, den |-> 2]

\* C6 as stated: scale(3, 2, eighth) returns the quarter.
C6_Original ==
    (scaled # Idle /\ ratio = Triplet /\ inner = eighth) => scaled = Ok(quarter)

\* C6 (amended): scale(3, 2, eighth) fails with invalid_tuplet (outer is
\* 2/24, the duration of no value); the triplet that gives the quarter is
\* scale(3, 2, 3/8), three eighths in the time of two.
C6_Triplet ==
    (scaled # Idle /\ ratio = Triplet) =>
        /\ inner = eighth => scaled = InvalidTuplet
        /\ inner = dot(quarter) => scaled = Ok(quarter)

C6_Witness ==
    /\ ratio = Triplet /\ inner = dot(quarter) /\ scaled = Ok(quarter)

(***************************************************************************)
(* duration::operator+ on rational<std::uint32_t>.  A 32-bit unsigned      *)
(* number is held as two 16-bit halves, [hi, lo], so that products wrap    *)
(* at 2^32 as they do in the program.                                      *)
(***************************************************************************)
MaxNum == 3

Half == shl1(16)

\* the halves of a number below 2^31
U32(n) == [hi |-> n \div Half, lo |-> n % Half]

IsZero32(a) == a.hi = 0 /\ a.lo = 0

Lt32(a, b) == a.hi < b.hi \/ (a.hi = b.hi /\ a.lo < b.lo)

\* a - b for a >= b
Sub32(a, b) ==
    IF a.lo >= b.lo THEN [hi |-> a.hi - b.hi, lo |-> a.lo - b.lo]
    ELSE [hi |-> a.hi - b.hi - 1, lo |-> a.lo + Half - b.lo]

\* a + b modulo 2^32
Add32(a, b) ==
    [hi |-> (a.hi + b.hi + (a.lo + b.lo) \div Half) % Half, lo |-> (a.lo + b.lo) % Half]

\* the product of two halves, exactly
Mul16(x, y) ==
    LET a == x * (y % 256)
        b == x * (y \div 256)
        low == a + (b % 256) * 256
    IN [hi |-> b \div 256 + low \div Half, lo |-> low % Half]

\* a * b modulo 2^32
Mul32(a, b) ==
    LET p == Mul16(a.lo, b.lo)
        cross == Mul16(a.hi, b.lo).lo + Mul16(a.lo, b.hi).lo
    IN [hi |-> (p.hi + cross) % Half, lo |-> p.lo]

Bit32(a, i) ==
    IF i >= 16 THEN (a.hi \div shl1(i - 16)) % 2 ELSE (a.lo \div shl1(i)) % 2

SetBit32(q, i) ==
    IF i >= 16 THEN [hi |-> q.hi + shl1(i - 16), lo |-> q.lo]
    ELSE [hi |-> q.hi, lo |-> q.lo + shl1(i)]

\* a / b of unsigned numbers, b # 0: long division from bit i down
RECURSIVE div_from(_, _, _, _, _)
div_from(a, b, i, q, r) ==
    IF i < 0 THEN q
    ELSE Only({ IF Lt32(r2, b) THEN div_from(a, b, i - 1, q, r2)
                ELSE div_from(a, b, i - 1, SetBit32(q, i), Sub32(r2, b))
                : r2 \in {[hi |-> 2 * r.hi + (2 * r.lo + Bit32(a, i)) \div Half,
                           lo |-> (2 * r.lo + Bit32(a, i)) % Half]} })

Div32(a, b) == Only({ div_from(x, y, 31, U32(0), U32(0)) : x \in {a}, y \in {b} })

\* compute_gcd
RECURSIVE compute_gcd(_, _)
compute_gcd(a, b) == IF b = 0 THEN a ELSE Only({ compute_gcd(y, r) : y \in {b}, r \in {a % b} })

\* rational(num, den): the denominator is not zero
rational(n, d) ==
    IF IsZero32(d) THEN Throw("precondition", "denominator is zero")
    ELSE Ok([num |-> n, den |-> d])

\* duration::operator+
duration_plus(a, b) ==
    LET gcd == U32(compute_gcd(a.den, b.den))
    IN Only({ rational(Add32(Div32(Mul32(U32(a.num), d), U32(a.den)),
                             Div32(Mul32(U32(b.num), d), U32(b.den))), d)
              : d \in {Div32(Mul32(U32(a.den), U32(b.den)), gcd)} })

\* duration::zero()
zero == [num |-> 0, den |-> 1]

Nums == 0..MaxNum

Dens == {1, 2, 3, 4, 8, 64, shl1(15), shl1(16)}

\* small fractions, fractions of large denominators, and 65536/65536
Durations == [num : Nums, den : Dens] \cup {[num |-> Half, den |-> Half]}

InitDuration ==
    /\ d1 \in Durations
    /\ d2 \in Durations
    /\ sum = Idle
    /\ pc = "start"
    /\ ParseIdle /\ BeamIdle /\ ScaleIdle /\ CopyIdle

Add ==
    /\ pc = "start"
    /\ sum' = duration_plus(d1, d2)
    /\ pc' = "added"
    /\ UNCHANGED <<d1, d2, parseVars, beamVars, scaleVars, copyVars>>

NextDuration == Add

SpecDuration == InitDuration /\ [][NextDuration]_vars

\* The sum over the integers: the least common denominator and the numerator.
ExactDen == (d1.den \div compute_gcd(d1.den, d2.den)) * d2.den

ExactNum == d1.num * (ExactDen \div d1.den) + d2.num * (ExactDen \div d2.den)

\* C9: a + b returns (n, d) with d = den1*den2/gcd(den1, den2) and n/d equal
\* to num1/den1 + num2/den2 over the integers, and zero() + a has the value
\* of a.
C9_ExactSum ==
    pc = "added" =>
        /\ sum = Ok([num |-> U32(ExactNum), den |-> U32(ExactDen)])
        /\ d1 = zero => sum = Ok([num |-> U32(d2.num), den |-> U32(d2.den)])

(***************************************************************************)
(* Deep copy.  The storage is a sequence of column objects, the address of *)
(* an object is its index; a beam or tuplet object holds the addresses of  *)
(* its children, in order.                                                 *)
(***************************************************************************)
MaxKids == 2

Leaves == {r8, n8, ch8}

TupletValues == {quarter, half}

\* A new object at the end of the storage.
Alloc(h, obj) == [heap |-> Append(h, obj), addr |-> Len(h) + 1]

RECURSIVE Store(_, _), StoreAll(_, _, _)
\* The column col laid out in the storage h, children first.
Store(h, col) ==
    IF col.type \in {"beam", "tuplet"}
    THEN Only({ Alloc(ks.heap, [col EXCEPT !.m_elements = ks.addrs])
                : ks \in {StoreAll(h, col.m_elements, 1)} })
    ELSE Alloc(h, col)

StoreAll(h, es, i) ==
    IF i > Len(es) THEN [heap |-> h, addrs |-> <<>>]
    ELSE Only({ Only({ [heap |-> others.heap, addrs |-> <<first.addr>> \o others.addrs]
                       : others \in {StoreAll(first.heap, es, i + 1)} })
                : first \in {Store(h, es[i])} })

\* The column that stands at the address a.
RECURSIVE Deref(_, _)
Deref(h, a) ==
    IF h[a].type \in {"beam", "tuplet"}
    THEN [h[a] EXCEPT !.m_elements =
            [k \in 1..Len(h[a].m_elements) |-> Deref(h, h[a].m_elements[k])]]
    ELSE h[a]

\* The addresses of the objects of the column at a.
RECURSIVE Reach(_, _)
Reach(h, a) ==
    IF h[a].type \in {"beam", "tuplet"}
    THEN {a} \cup UNION {Reach(h, h[a].m_elements[k]) : k \in 1..Len(h[a].m_elements)}
    ELSE {a}

Copied(h, a) == [st |-> "ok", heap |-> h, addr |-> a, exc |-> Nothing]

CopyRaised(kind, msg) ==
    [st |-> "throw", heap |-> <<>>, addr |-> 0, exc |-> [type |-> kind, what |-> msg]]

\* beam{ elements } and tuplet{ m_value, elements } over the storage: validate
\* the members at the addresses es, then the new object.
rebuild(h, obj, es) ==
    Only({ IF result # ""
           THEN CopyRaised(IF obj.type = "beam" THEN "invalid_beam" ELSE "invalid_value",
                           result)
           ELSE Only({ Copied(n.heap, n.addr)
                       : n \in {Alloc(h, [obj EXCEPT !.m_elements = es])} })
           : result \in {IF obj.type = "beam"
                         THEN beam_validate([k \in 1..Len(es) |-> h[es[k]]])
                         ELSE tuplet_validate(es)} })

\* copy_visitor that hands the children of the original to the new object
copy_visitor_Shallow(h, a) ==
    IF h[a].type \in {"beam", "tuplet"}
    THEN rebuild(h, h[a], h[a].m_elements)
    ELSE Only({ Copied(n.heap, n.addr) : n \in {Alloc(h, h[a])} })

RECURSIVE copy_visitor(_, _), copy_elements(_, _, _)
\* copy_visitor: a rest, note or chord is returned by value (a new object);
\* a beam or tuplet is rebuilt from the copies of its children.
copy_visitor(h, a) ==
    IF h[a].type \in {"beam", "tuplet"}
    THEN Only({ IF cs.st = "throw" THEN CopyRaised(cs.exc.type, cs.exc.what)
                ELSE rebuild(cs.heap, h[a], cs.addrs)
                : cs \in {copy_elements(h, h[a].m_elements, 1)} })
    ELSE Only({ Copied(n.heap, n.addr) : n \in {Alloc(h, h[a])} })

\* std::transform over m_elements with back_inserter: the copies, in order
copy_elements(h, es, i) ==
    IF i > Len(es) THEN [st |-> "ok", heap |-> h, addrs |-> <<>>, exc |-> Nothing]
    ELSE Only({ IF first.st = "throw"
                THEN [st |-> "throw", heap |-> <<>>, addrs |-> <<>>, exc |-> first.exc]
                ELSE Only({ IF others.st = "throw" THEN others
                            ELSE [st |-> "ok", heap |-> others.heap,
                                  addrs |-> <<first.addr>> \o others.addrs,
                                  exc |-> Nothing]
                            : others \in {copy_elements(first.heap, es, i + 1)} })
                : first \in {copy_visitor(h, es[i])} })

\* The member sequences: leaves, of which at most one is replaced by a column
\* of below.
Kids(below) ==
    SeqsUpTo(Leaves, MaxKids)
        \cup UNION { {[es EXCEPT ![p] = x] : p \in 1..Len(es), x \in below}
                     : es \in SeqsUpTo(Leaves, MaxKids) }

Containers(below) ==
    {RawBeam(es) : es \in Kids(below)}
        \cup {RawTuplet(v, es) : v \in TupletValues, es \in Kids(below)}

\* A column every beam and tuplet of which passes its constructor.
RECURSIVE Valid(_)
Valid(col) ==
    CASE col.type = "beam" ->
            /\ \A k \in 1..Len(col.m_elements) : Valid(col.m_elements[k])
            /\ beam(col.m_elements).st = "ok"
      [] col.type = "tuplet" ->
            /\ \A k \in 1..Len(col.m_elements) : Valid(col.m_elements[k])
            /\ tuplet(col.m_value, col.m_elements).st = "ok"
      [] OTHER -> TRUE

Level1 == {col \in Containers(Leaves) : Valid(col)}

Level2 == {col \in Containers(Level1) : Valid(col)}

\* the valid columns that are copied
Columns == Leaves \cup Level1 \cup Level2

InitCopy ==
    /\ source \in Columns
    /\ \E s \in {Store(<<>>, source)} : heap = s.heap /\ original = s.addr
    /\ copied = Idle
    /\ pc = "start"
    /\ ParseIdle /\ BeamIdle /\ ScaleIdle /\ DurationIdle

\* std::visit(copy_visitor{}, column)
Copy ==
    /\ pc = "start"
    /\ \E r \in {copy_visitor(heap, original)} :
          IF r.st = "ok"
          THEN heap' = r.heap /\ copied' = Ok(r.addr)
          ELSE heap' = heap /\ copied' = [st |-> "throw", val |-> r.exc]
    /\ pc' = "copied"
    /\ UNCHANGED <<source, original, parseVars, beamVars, scaleVars, durationVars>>

\* A child of the copy, at any depth, is replaced by another column.
Replace ==
    /\ pc = "copied" /\ copied.st = "ok"
    /\ \E a \in Reach(heap, copied.val) \ {copied.val}, x \in Leaves :
          /\ x # heap[a]
          /\ heap' = [heap EXCEPT ![a] = x]
    /\ pc' = "replaced"
    /\ UNCHANGED <<source, original, copied, parseVars, beamVars, scaleVars, durationVars>>

NextCopy == Copy \/ Replace

SpecCopy == InitCopy /\ [][NextCopy]_vars

\* C11: the deep copy of a valid column (rest, note, chord, beam or tuplet,
\* nested) raises no validation error and is structurally equal to the
\* column: the same variant, value and pitches, the same number of children
\* in the same order, each the deep copy of the corresponding child; the copy
\* shares no object with the original, and replacing a child in the copy
\* leaves the original equal to what it was.
C11_DeepCopy ==
    /\ pc \in {"copied", "replaced"} =>
          /\ copied.st = "ok"
          /\ copy_variant(source) = Ok(source)
          /\ Deref(heap, original) = source
          /\ Reach(heap, copied.val) \cap Reach(heap, original) = {}
          /\ heap[copied.val].type = source.type
    /\ pc = "copied" =>
          /\ Deref(heap, copied.val) = source
          /\ source.type \in {"beam", "tuplet"} =>
                /\ Len(heap[copied.val].m_elements) = Len(source.m_elements)
                /\ \A k \in 1..Len(source.m_elements) :
                      Deref(heap, heap[copied.val].m_elements[k]) = source.m_elements[k]

C11_Witness ==
    /\ pc = "replaced"
    /\ source.type = "beam"
    /\ \E k \in 1..Len(source.m_elements) : source.m_elements[k].type = "tuplet"
    /\ Deref(heap, copied.val) # source
    /\ Deref(heap, original) = source

====
